---------------------------- MODULE Spec2Model ----------------------------
(***************************************************************************)
(* The WidgetDemo component of src/src/pages/widgetCapture.tsx as a state  *)
(* machine.                                                                *)
(*                                                                         *)
(* State is the component's refs and React state, the container's DOM      *)
(* contents, the global provider function, and the browser's pending       *)
(* timers.  One action per handler: the holder's reinitialize() and        *)
(* updateWidget() calls, React's commit of queued state updates, its run   *)
(* of the passive effects, unmount, and the callback of each of the four   *)
(* timers.  Time is the remaining delay of each pending timer, in          *)
(* milliseconds, advanced in quanta.                                       *)
(*                                                                         *)
(* React state (containerKey, isWidgetLoaded) has two values: the one the  *)
(* last render saw, which closures capture, and the one the queued         *)
(* updates will produce (nextKey, nextLoaded).  React is not part of the   *)
(* source and its version is not fixed by it, so the model allows what any *)
(* version does: a queued update is committed in some later step, and the  *)
(* passive effects of a commit run in a step after it, with the callbacks  *)
(* of due timers free to run in between; an unmount runs the effect        *)
(* cleanups either inside the commit, before the container is detached, or *)
(* in a later step, after it.                                              *)
(***************************************************************************)
EXTENDS Integers, Sequences, FiniteSets

\* How many reinitialize() calls the holder makes.
MaxReinit == 2

\* How many poll intervals the holder's calls may lead to.
MaxAttempts == 2

\* src line 113: setTimeout(initializeWidgetProcess, 300)
InitDelayMs == 300
\* src line 59: setTimeout(..., 100)
ReinitDelayMs == 100
\* src line 97: setInterval(..., 200)
PollMs == 200
\* src line 103: setTimeout(..., 10000)
TimeoutMs == 10000

\* Time advances in steps of the smallest delay; every delay is a multiple.
Quantum == ReinitDelayMs

VARIABLES
  mounted,         \* the component is mounted
  provider,        \* typeof window.initializeDiroWidget: "undefined", "function"
  containerKey,    \* useState containerKey, as the last render saw it
  nextKey,         \* containerKey after the queued updates
  isWidgetLoaded,  \* useState isWidgetLoaded, as the last render saw it
  nextLoaded,      \* isWidgetLoaded after the queued updates
  containerRef,    \* containerRef.current: TRUE when a div is attached
  content,         \* the attached div's children
  widgetInstance,  \* widgetInstance.current: 0 is null, else a handle
  destroyCalls,    \* destroyCalls[h]: times destroy ran on handle h
  hasInitialized,  \* hasInitialized.current
  timers,          \* the pending timers
  passive,         \* passive effects React has yet to run: "none", "key"
                   \* (lines 112-115, after a commit that changed
                   \* containerKey), "unmount" (the cleanups, after a commit
                   \* that removed the component)
  attempts,        \* poll intervals started so far
  reinitCalls,     \* reinitialize() calls made so far
  availableAtMount, \* the provider was defined when the component mounted
  timedOut,        \* a timeout has ended an attempt that never saw the
                   \* provider (see GivesUp), and reinitialize() has not been
                   \* called since
  last             \* what the last step did

vars == <<mounted, provider, containerKey, nextKey, isWidgetLoaded, nextLoaded,
          containerRef, content, widgetInstance, destroyCalls, hasInitialized,
          timers, passive, attempts, reinitCalls, availableAtMount, timedOut,
          last>>

-----------------------------------------------------------------------------
(* DOM contents of the container div *)

\* innerHTML = "": no children.
Empty == [inner |-> -1, widget |-> FALSE]

\* One child div with id diro-widget-inner-<k>; widget is TRUE once the
\* provider has injected its markup into it.
Inner(k, w) == [inner |-> k, widget |-> w]

-----------------------------------------------------------------------------
(* The urn prop and the target URL *)

\* The urn prop (line 37): not passed, or a string.
Absent == [given |-> FALSE, value |-> ""]
Given(v) == [given |-> TRUE, value |-> v]

\* The urn props the parent passes.
Urns == {Absent, Given(""), Given("abc123")}

\* JavaScript truthiness of urn: undefined and "" are falsy.
Truthy(u) == u.given /\ u.value # ""

\* urn inside a template literal: undefined prints as "undefined".
ToString(u) == IF u.given THEN u.value ELSE "undefined"

\* The fixed part of the URL (lines 130-131) up to the trackid parameter.
UrlHead ==
  "https://verification.diro.io/?buttonid=O.c117bd44-8cfa-42df-99df-c4ad2ba6c6f5-Z6Jc&"

\* The URL of line 131.
BaseUrl == UrlHead \o "trackid="

\* The template literal of line 130 on its own, without the test of urn.
TargetUrlUntested(u) == BaseUrl \o ToString(u)

\* targetUrl (lines 129-131).
TargetUrl(u) == IF Truthy(u) THEN BaseUrl \o ToString(u) ELSE BaseUrl

-----------------------------------------------------------------------------
(* The component's mutable cells as one record, so that a handler that     *)
(* calls another is the composition of the two.                            *)

Cells ==
  [ref |-> containerRef, content |-> content, wi |-> widgetInstance,
   destroyCalls |-> destroyCalls, hasInit |-> hasInitialized,
   loaded |-> nextLoaded,
   urn |-> Absent,         \* the urn prop the running closure saw
   url |-> "",             \* the targetUrl handed to the provider in this step
   invoked |-> FALSE,      \* the provider was called in this step
   threw |-> FALSE,        \* the provider raised in this step
   caught |-> FALSE,       \* the catch of initializeWidget ran in this step
   destroyThrew |-> FALSE, \* destroy raised in this step
   uncaught |-> FALSE]     \* an exception left the component in this step

\* The handle's destroy (lines 159-163), called on handle c.wi; raises says
\* whether the DOM write raises.
Destroy(c, raises) ==
  LET counted == [c EXCEPT !.destroyCalls[c.wi] = @ + 1] IN
  IF ~c.ref THEN counted
  ELSE IF raises THEN [counted EXCEPT !.destroyThrew = TRUE]
  ELSE [counted EXCEPT !.content = Empty]

\* Which of the container writes of a cleanup raise: the one inside destroy
\* (line 161) and the one of cleanup itself (line 76).
NoRaise == [destroy |-> FALSE, clear |-> FALSE]
WriteRaises == [destroy : BOOLEAN, clear : BOOLEAN]

\* Lines 75-77 of cleanup: the write is outside the try of lines 65-69, so
\* when it raises the exception leaves cleanup.
ClearContainer(c, raises) ==
  IF ~c.ref THEN c
  ELSE IF raises THEN [c EXCEPT !.uncaught = TRUE]
  ELSE [c EXCEPT !.content = Empty]

\* cleanup that calls destroy and keeps the reference and the loaded flag.
CleanupKeepsHandle(c, raises) ==
  ClearContainer(IF c.wi # 0 THEN Destroy(c, raises.destroy) ELSE c,
                 raises.clear)

\* cleanup that also clears the re-entry guard.
CleanupResetsGuard(c, raises) ==
  LET c1 == IF c.wi # 0
            THEN [Destroy(c, raises.destroy) EXCEPT !.wi = 0, !.loaded = FALSE]
            ELSE c
  IN ClearContainer([c1 EXCEPT !.hasInit = FALSE], raises.clear)

\* cleanup (lines 63-78); raises in WriteRaises.
Cleanup(c, raises) ==
  LET c1 == IF c.wi # 0
            THEN [Destroy(c, raises.destroy) EXCEPT !.wi = 0, !.loaded = FALSE]
            ELSE c
  IN ClearContainer(c1, raises.clear)

\* What raises inside the try of initializeWidget (lines 120-166): nothing,
\* the container write of line 122, the appendChild of line 127, the
\* provider before it has put anything into the inner div, or the provider
\* after it has injected its markup.
InitRaises == {"none", "clear", "append", "provider", "injected"}

\* The catch of initializeWidget (lines 167-171).
Catch(c) == [c EXCEPT !.caught = TRUE, !.hasInit = FALSE, !.loaded = FALSE]

\* The try / catch of initializeWidget (lines 120-171), in a closure that
\* saw containerKey = k and the prop c.urn.
InitializeBody(c, k, raises) ==
  IF raises = "clear" THEN Catch(c)
  ELSE IF raises = "append" THEN Catch([c EXCEPT !.content = Empty])
  ELSE LET c1 == [c EXCEPT !.content = Inner(k, FALSE)] IN
       IF provider # "function" THEN c1
       ELSE LET c2 == [c1 EXCEPT !.invoked = TRUE, !.url = TargetUrl(c.urn)] IN
            IF raises = "provider" THEN Catch([c2 EXCEPT !.threw = TRUE])
            ELSE IF raises = "injected"
            THEN Catch([c2 EXCEPT !.threw = TRUE, !.content = Inner(k, TRUE)])
            ELSE [c2 EXCEPT !.content = Inner(k, TRUE),
                            !.destroyCalls = Append(@, 0),
                            !.wi = Len(c.destroyCalls) + 1,
                            !.loaded = TRUE]

\* initializeWidget without the test of containerRef.current at line 118.
InitializeWidgetNoRefGuard(c, k, raises) == InitializeBody(c, k, raises)

\* initializeWidget (lines 117-172); raises in InitRaises.
InitializeWidget(c, k, raises) ==
  IF ~c.ref THEN c ELSE InitializeBody(c, k, raises)

\* Lines 88-89 and 93-94: initializeWidget(); hasInitialized.current = true.
InitializeAndMark(c, k, raises) ==
  [InitializeWidget(c, k, raises) EXCEPT !.hasInit = TRUE]

-----------------------------------------------------------------------------
(* Timers *)

\* A pending timer: its kind, the delay left in ms, and the containerKey its
\* callback's closure saw.  n tells timers of one kind apart: the ordinal of
\* the reinitialize() call that set a "reinit" timer, the ordinal of the
\* attempt that set a "poll" interval and its "timeout" (which is how the
\* timeout's closure names the interval it clears); 0 for the one "init"
\* timer.  idled is used by timeouts only (see Advance).
Timer(kind, n, left, key) ==
  [kind |-> kind, n |-> n, left |-> left, key |-> key, idled |-> FALSE]

Due(t) == t.left = 0

\* The pending one-shot delay timers, and the pending poll intervals.
PendingDelays == {t \in timers : t.kind \in {"init", "reinit"}}
PendingPolls == {t \in timers : t.kind = "poll"}

\* Queued state updates that React has not committed yet.
Pending == mounted /\ (nextKey # containerKey \/ nextLoaded # isWidgetLoaded)

\* The timers initializeWidgetProcess creates in its else branch
\* (lines 91-103): the poll interval and the timeout that clears it.
PollTimers(k) ==
  {Timer("poll", attempts + 1, PollMs, k),
   Timer("timeout", attempts + 1, TimeoutMs, k)}

\* What a step did: the handler that ran (for a timer callback, the timer's
\* kind and n), and what happened inside it; when the provider was called,
\* the urn the closure saw and the URL it passed.
Step(c, op, kind, n) ==
  [op |-> op, kind |-> kind, n |-> n, invoked |-> c.invoked, threw |-> c.threw,
   caught |-> c.caught,
   urn |-> IF c.invoked THEN c.urn ELSE Absent, url |-> c.url,
   destroyThrew |-> c.destroyThrew, uncaught |-> c.uncaught]

\* A step that ran none of the component's handlers.
Idle == Step(Cells, "idle", "", 0)

\* Write the cells back.  setIsWidgetLoaded queues its value; Render
\* commits it, in the same task or a later one.
Store(c) ==
  /\ containerRef' = c.ref
  /\ content' = c.content
  /\ widgetInstance' = c.wi
  /\ destroyCalls' = c.destroyCalls
  /\ hasInitialized' = c.hasInit
  /\ nextLoaded' = c.loaded
  /\ isWidgetLoaded' = isWidgetLoaded

-----------------------------------------------------------------------------
Init ==
  /\ mounted = TRUE
  /\ provider \in {"undefined", "function"}
  /\ containerKey = 0
  /\ nextKey = 0
  /\ isWidgetLoaded = FALSE
  /\ nextLoaded = FALSE
  /\ containerRef = TRUE
  /\ content = Empty
  /\ widgetInstance = 0
  /\ destroyCalls = <<>>
  /\ hasInitialized = FALSE
  /\ timers = {Timer("init", 0, InitDelayMs, 0)}
  /\ passive = "none"
  /\ attempts = 0
  /\ reinitCalls = 0
  /\ availableAtMount = (provider = "function")
  /\ timedOut = FALSE
  /\ last = [op |-> "mount", kind |-> "", n |-> 0, invoked |-> FALSE,
             urn |-> Absent, url |-> "", caught |-> FALSE,
             threw |-> FALSE, destroyThrew |-> FALSE, uncaught |-> FALSE]

-----------------------------------------------------------------------------
(* The holder's calls *)

\* The handle's update (line 158): () => {}.
HandleUpdate(c) == c

\* updateWidget without the null check: update is read off null.
UpdateBodyUnguarded(c) ==
  IF c.wi # 0 THEN HandleUpdate(c) ELSE [c EXCEPT !.uncaught = TRUE]

\* The body of updateWidget (lines 49-51).
UpdateBody(c) == IF c.wi # 0 THEN HandleUpdate(c) ELSE c

\* updateWidget(data), lines 48-52.
UpdateWidget ==
  /\ mounted
  /\ LET c == UpdateBody(Cells) IN
       /\ Store(c)
       /\ last' = Step(c, "updateWidget", "", 0)
  /\ UNCHANGED <<mounted, provider, containerKey, nextKey, timers, passive,
                 attempts, reinitCalls, availableAtMount, timedOut>>

\* setContainerKey((prev) => prev + 1), line 55.
BumpKey == nextKey + 1

\* reinitialize that leaves the re-entry guard as it is.
ReinitializeKeepsGuard(c, raises) == Cleanup(c, raises)

\* Lines 54 and 56 of reinitialize: cleanup(); hasInitialized.current = false.
\* An exception that leaves cleanup leaves reinitialize at line 54.
ReinitializeCells(c, raises) ==
  LET d == Cleanup(c, raises) IN
  IF d.uncaught THEN d ELSE [d EXCEPT !.hasInit = FALSE]

\* What reinitialize() finds: the remains of a failed initialize (an inner
\* div the provider put nothing into: "failed"), a component left not-loaded
\* by a timeout ("timedout"), a handle ("live"), or none of these.
Found ==
  IF content.inner >= 0 /\ ~content.widget THEN "failed"
  ELSE IF timedOut /\ ~nextLoaded THEN "timedout"
  ELSE IF widgetInstance # 0 THEN "live"
  ELSE "empty"

\* reinitialize (lines 53-60).  The delay timer's callback is the
\* initializeWidgetProcess of the render the handle was made in.  When
\* cleanup raises, lines 55-59 do not run.
Reinitialize(raises) ==
  /\ mounted
  /\ reinitCalls < MaxReinit
  /\ \/ provider = "function"
     \/ attempts + Cardinality({t \in timers : t.kind = "reinit"}) + 2 <= MaxAttempts
  /\ LET c == ReinitializeCells(Cells, raises) IN
       /\ Store(c)
       /\ last' = Step(c, "reinitialize", Found, 0)
       /\ nextKey' = IF c.uncaught THEN nextKey ELSE BumpKey
       /\ timers' = IF c.uncaught THEN timers
                     ELSE timers \cup {Timer("reinit", reinitCalls + 1,
                                              ReinitDelayMs, containerKey)}
  /\ timedOut' = FALSE
  /\ reinitCalls' = reinitCalls + 1
  /\ UNCHANGED <<mounted, provider, containerKey, passive, attempts,
                 availableAtMount>>

\* The timers that clearTimeout(timer) at line 114 leaves pending.
WithoutInitTimer == {t \in timers : t.kind # "init"}

\* React commits the queued updates and re-renders.  A changed containerKey
\* changes the container div's key (line 180), so React replaces the div
\* with a fresh one and schedules the effect of lines 112-115.  React runs
\* the passive effects of one commit before it renders again.
Render ==
  /\ Pending
  /\ passive = "none"
  /\ containerKey' = nextKey
  /\ isWidgetLoaded' = nextLoaded
  /\ IF nextKey # containerKey
     THEN content' = Empty /\ passive' = "key"
     ELSE UNCHANGED <<content, passive>>
  /\ last' = Idle
  /\ UNCHANGED <<mounted, attempts, availableAtMount, timedOut, provider,
                 nextKey, nextLoaded, containerRef, widgetInstance,
                 destroyCalls, hasInitialized, reinitCalls, timers>>

\* The effect of lines 112-115 after a commit that changed containerKey: the
\* previous run's cleanup clears its delay timer, if that has not fired yet,
\* and a new one is started whose callback is this render's
\* initializeWidgetProcess.
RunEffect ==
  /\ passive = "key"
  /\ passive' = "none"
  /\ timers' = WithoutInitTimer \cup {Timer("init", 0, InitDelayMs, containerKey)}
  /\ last' = Idle
  /\ UNCHANGED <<mounted, provider, containerKey, nextKey, isWidgetLoaded,
                 nextLoaded, containerRef, content, widgetInstance,
                 destroyCalls, hasInitialized, attempts, reinitCalls,
                 availableAtMount, timedOut>>

\* Unmount where React runs the effect cleanups inside the commit, before it
\* detaches containerRef (React 16): cleanup (lines 80-82) runs against the
\* attached div, whose writes may raise, and clearTimeout(timer) (line 114)
\* runs whether it raised or not; then the div is removed.
Unmount(raises) ==
  /\ mounted
  /\ passive = "none"
  /\ mounted' = FALSE
  /\ LET c == Cleanup(Cells, raises) IN
       /\ Store([c EXCEPT !.ref = FALSE, !.content = Empty])
       /\ last' = Step(c, "unmount", "", 0)
  /\ timers' = WithoutInitTimer
  /\ UNCHANGED <<provider, containerKey, nextKey, passive, attempts,
                 reinitCalls, availableAtMount, timedOut>>

\* Unmount where React detaches containerRef and removes the div in the
\* commit and leaves the effect cleanups to a later step (React 17 and
\* later).
Detach ==
  /\ mounted
  /\ passive = "none"
  /\ mounted' = FALSE
  /\ passive' = "unmount"
  /\ containerRef' = FALSE
  /\ content' = Empty
  /\ last' = Step(Cells, "detach", "", 0)
  /\ UNCHANGED <<provider, containerKey, nextKey, isWidgetLoaded, nextLoaded,
                 widgetInstance, destroyCalls, hasInitialized, timers,
                 attempts, reinitCalls, availableAtMount, timedOut>>

\* The effect cleanups after Detach: cleanup (lines 80-82), which finds
\* containerRef.current null and so writes nothing, and clearTimeout(timer)
\* (line 114).
UnmountEffects ==
  /\ passive = "unmount"
  /\ passive' = "none"
  /\ LET c == Cleanup(Cells, NoRaise) IN
       /\ Store(c)
       /\ last' = Step(c, "unmount", "", 0)
  /\ timers' = WithoutInitTimer
  /\ UNCHANGED <<mounted, provider, containerKey, nextKey, attempts,
                 reinitCalls, availableAtMount, timedOut>>

-----------------------------------------------------------------------------
(* The environment *)

\* The external script loads and defines window.initializeDiroWidget.
ProviderLoads ==
  /\ provider = "undefined"
  /\ provider' = "function"
  /\ last' = Idle
  /\ UNCHANGED <<mounted, containerKey, nextKey, isWidgetLoaded, nextLoaded,
                 containerRef, content, widgetInstance, destroyCalls,
                 hasInitialized, timers, passive, attempts, reinitCalls,
                 availableAtMount, timedOut>>

\* A timeout that has not come due yet.  TimeoutMs is fifty poll periods;
\* the model does not count them.  A timeout's remaining time stays
\* TimeoutMs until, at some later instant, it comes due.
Far(t) == t.kind = "timeout" /\ t.left > 0

\* Nothing is about to happen: the only timers pending are timeouts and
\* poll intervals that find no provider.  The long wait for a timeout is
\* spent in such states.
Idling ==
  /\ PendingDelays = {}
  /\ provider = "undefined" \/ PendingPolls = {}

\* The timeout t may come due at the end of this quantum:
\*  - it has been through an idle stretch since it was started (every delay
\*    timer is far shorter than TimeoutMs, so those pending when t was
\*    started have fired long before t);
\*  - TimeoutMs is a multiple of PollMs and both timers start together, so
\*    while t's poll interval is pending, t comes due when the poll is due;
\*  - timeouts come due in the order they were started.
MayComeDue(t, S) ==
  /\ t.idled
  /\ \A p \in timers : p.kind = "poll" /\ p.n = t.n => p.left = Quantum
  /\ \A u \in timers : Far(u) /\ u.n < t.n => u \in S

\* Time passes: one quantum, with no timer due.  React schedules a commit
\* and the passive effects as tasks of their own, milliseconds away: a timer
\* that is due may run before them, but no whole quantum goes by.
Advance ==
  /\ ~Pending
  /\ passive = "none"
  /\ timers # {}
  /\ \A t \in timers : ~Due(t)
  /\ \E S \in SUBSET {t \in timers : Far(t)} :
       /\ \A t \in S : MayComeDue(t, S)
       /\ timers' = {IF Far(t)
                       THEN (IF t \in S THEN [t EXCEPT !.left = 0]
                             ELSE [t EXCEPT !.idled = @ \/ Idling])
                       ELSE [t EXCEPT !.left = @ - Quantum] : t \in timers}
  /\ last' = Idle
  /\ UNCHANGED <<mounted, provider, containerKey, nextKey, isWidgetLoaded,
                 nextLoaded, containerRef, content, widgetInstance,
                 destroyCalls, hasInitialized, passive, attempts, reinitCalls,
                 availableAtMount, timedOut>>

-----------------------------------------------------------------------------
(* Timer callbacks *)

\* initializeWidgetProcess that polls even when the provider is defined.
InitializeWidgetProcessAlwaysPolls(c, k, raises) ==
  IF c.hasInit THEN [cells |-> c, made |-> {}]
  ELSE [cells |-> c, made |-> PollTimers(k)]

\* initializeWidgetProcess (lines 84-110) in a closure that saw
\* containerKey = k: the cells after it, and the timers it starts.
InitializeWidgetProcess(c, k, raises) ==
  IF c.hasInit THEN [cells |-> c, made |-> {}]
  ELSE IF provider = "function"
  THEN [cells |-> InitializeAndMark(c, k, raises), made |-> {}]
  ELSE [cells |-> c, made |-> PollTimers(k)]

\* A one-shot delay timer t fires and runs initializeWidgetProcess.  The
\* closure saw the urn the parent passed at its render, any of Urns.
FireDelay(t, raises) ==
  /\ Due(t)
  /\ \E u \in Urns :
       LET r == InitializeWidgetProcess([Cells EXCEPT !.urn = u], t.key, raises) IN
         /\ Store(r.cells)
         /\ timers' = (timers \ {t}) \cup r.made
         /\ attempts' = IF r.made = {} THEN attempts ELSE attempts + 1
         /\ last' = Step(r.cells, "fire", t.kind, t.n)
  /\ UNCHANGED <<mounted, provider, containerKey, nextKey, passive,
                 reinitCalls, availableAtMount, timedOut>>

\* The 300 ms timer of the containerKey effect (line 113).
FireInitDelay(raises) ==
  \E t \in timers : t.kind = "init" /\ FireDelay(t, raises)

\* The 100 ms timer of reinitialize (lines 57-59).
FireReinitDelay(raises) ==
  \E t \in timers : t.kind = "reinit" /\ FireDelay(t, raises)

\* The interval callback (lines 91-97): the cells after it, and whether it
\* cleared its own interval.
PollBody(c, k, raises) ==
  IF provider = "function"
  THEN [cells |-> InitializeAndMark(c, k, raises), cleared |-> TRUE]
  ELSE [cells |-> c, cleared |-> FALSE]

\* A poll interval ticks.
PollTick(raises) ==
  \E t \in timers :
    /\ t.kind = "poll"
    /\ Due(t)
    /\ \E u \in Urns :
         LET r == PollBody([Cells EXCEPT !.urn = u], t.key, raises) IN
           /\ Store(r.cells)
           /\ timers' = IF r.cleared THEN timers \ {t}
                         ELSE (timers \ {t}) \cup {[t EXCEPT !.left = PollMs]}
           /\ last' = Step(r.cells, "fire", "poll", t.n)
    /\ UNCHANGED <<mounted, provider, containerKey, nextKey, passive,
                   attempts, reinitCalls, availableAtMount, timedOut>>

\* The timers left when the timeout t has run (lines 100-103): it clears
\* its poll interval.
AfterTimeout(t) ==
  {u \in timers : ~(u.kind \in {"poll", "timeout"} /\ u.n = t.n)}

\* The timeout t, firing now, ends an attempt that never saw the provider
\* and leaves the component not-loaded with no initialize scheduled.
GivesUp(t) ==
  /\ provider = "undefined"
  /\ \E p \in PendingPolls : p.n = t.n
  /\ ~nextLoaded
  /\ PendingDelays = {}

\* A timeout fires.
FireTimeout ==
  \E t \in timers :
    /\ t.kind = "timeout"
    /\ Due(t)
    /\ timers' = AfterTimeout(t)
    /\ timedOut' = (timedOut \/ GivesUp(t))
    /\ last' = Step(Cells, "fire", "timeout", t.n)
    /\ UNCHANGED <<mounted, provider, containerKey, nextKey, isWidgetLoaded,
                   nextLoaded, containerRef, content, widgetInstance,
                   destroyCalls, hasInitialized, passive, attempts,
                   reinitCalls, availableAtMount>>

\* The scheduling the browser and React guarantee: queued updates are
\* committed, scheduled effects run, time passes, and a timer that is due
\* fires.
Fairness ==
  /\ WF_vars(Render)
  /\ WF_vars(RunEffect)
  /\ WF_vars(UnmountEffects)
  /\ WF_vars(Advance)
  /\ WF_vars(\E raises \in InitRaises : FireInitDelay(raises))
  /\ WF_vars(\E raises \in InitRaises : FireReinitDelay(raises))
  /\ WF_vars(\E raises \in InitRaises : PollTick(raises))
  /\ WF_vars(FireTimeout)

-----------------------------------------------------------------------------
Next ==
  \/ UpdateWidget
  \/ \E raises \in WriteRaises : Reinitialize(raises)
  \/ Render
  \/ RunEffect
  \/ \E raises \in WriteRaises : Unmount(raises)
  \/ Detach
  \/ UnmountEffects
  \/ ProviderLoads
  \/ Advance
  \/ \E raises \in InitRaises : FireInitDelay(raises)
  \/ \E raises \in InitRaises : FireReinitDelay(raises)
  \/ \E raises \in InitRaises : PollTick(raises)
  \/ FireTimeout

Spec == Init /\ [][Next]_vars

FairSpec == Spec /\ Fairness

-----------------------------------------------------------------------------
(* Claims *)

\* The handles created and never destroyed.
LiveHandles == {h \in 1..Len(destroyCalls) : destroyCalls[h] = 0}

\* The timers of kind k that are pending.
PendingOf(k) == {t \in timers : t.kind = k}

\* C1: no timer the component created fires after unmount: unmount cancels
\* every timer that is pending at that moment.
C1_NoTimerFiresAfterUnmount == ~mounted => last.op # "fire"

\* C2: at most one live WidgetHandle exists at any time: the provider is
\* never invoked to create a handle while an earlier one is not destroyed.
C2_AtMostOneLiveHandle == Cardinality(LiveHandles) <= 1

\* C3: reinitialize(), in any prior LoadState, tears the widget down within
\* the call: the handle held at the call has destroy invoked exactly once (and
\* no other handle is touched), and on return no handle is held and LoadState
\* is not-loaded.
C3_ReinitializeTearsDown ==
  [][reinitCalls' # reinitCalls =>
       /\ widgetInstance' = 0
       /\ ~nextLoaded'
       /\ Len(destroyCalls') = Len(destroyCalls)
       /\ \A h \in 1..Len(destroyCalls) :
            destroyCalls'[h] = IF h = widgetInstance THEN 1 ELSE destroyCalls[h]]_vars

\* reinitialize() has just torn down a widget that the last render still
\* shows as loaded.
C3_Witness ==
  /\ last.op = "reinitialize"
  /\ isWidgetLoaded
  /\ ~nextLoaded
  /\ widgetInstance = 0
  /\ \E h \in 1..Len(destroyCalls) : destroyCalls[h] = 1

\* C4: ContainerGeneration never decreases and every reinitialize() call
\* adds exactly one to it: after n calls since mount it is n, also when
\* several calls are made before the component re-renders, and the rendered
\* key catches up with it at the re-render.
C4_GenerationCountsReinitializes ==
  /\ [](/\ nextKey = reinitCalls
        /\ containerKey <= nextKey
        /\ (mounted /\ ~Pending => containerKey = reinitCalls))
  /\ [][/\ containerKey' >= containerKey
        /\ nextKey' >= nextKey
        /\ (reinitCalls' # reinitCalls => nextKey' = nextKey + 1)]_vars

\* reinitialize() call number n has just been made, and has returned, with
\* the provider available; whatever state it was called in, so also in
\* every not-loaded state left by a timeout or by a failed initialize.
Recovering(n) ==
  /\ mounted
  /\ reinitCalls = n
  /\ last.op = "reinitialize"
  /\ ~last.uncaught
  /\ provider = "function"

\* C5: recovery by reinitialize.  From a not-loaded state reached after a
\* timeout or an initialization failure, a reinitialize() that is made while
\* the provider is available and does not raise leads to the loaded state,
\* unless an initialize raises (the provider, or a container write), the
\* component is unmounted or reinitialize() is called again.
C5_RecoveryByReinitialize ==
  \A n \in 1..MaxReinit :
    Recovering(n) ~>
      (isWidgetLoaded \/ last.caught \/ ~mounted \/ reinitCalls # n)

\* reinitialize() has been called to recover after a timeout.
C5_Witness ==
  /\ \E n \in 1..MaxReinit : Recovering(n) /\ last.kind = "timedout"
  /\ hasInitialized = FALSE
  /\ ~nextLoaded

\* C6: when the provider call raises during an initialize attempt, the
\* exception stays inside the component, and once the attempt has finished
\* LoadState is not-loaded and the re-entry guard is cleared.
C6_RaiseClearsGuard ==
  (last.op = "fire" /\ last.threw) =>
    (~last.uncaught /\ ~nextLoaded /\ ~hasInitialized)

\* C7: once a timeout has fired on an attempt that never saw the provider,
\* the component stays not-loaded until reinitialize() is called.
C7_TimedOutStaysNotLoaded == (mounted /\ timedOut) => ~isWidgetLoaded

\* C8: if the provider never becomes available, then after the timeout the
\* component is not-loaded and no poll timer remains pending, so no poll
\* tick runs again.
C8_NoPollingAfterTimeout ==
  (mounted /\ timedOut /\ provider = "undefined") =>
    (~isWidgetLoaded /\ ~nextLoaded /\ PendingOf("poll") = {})

\* C9: updateWidget(data) with no handle live raises nothing and changes
\* nothing: LoadState, the handle reference, the generation, the re-entry
\* guard and the pending timers stay as they are.
C9_UpdateWithoutHandleIsNoOp ==
  [][(last'.op = "updateWidget" /\ widgetInstance = 0) =>
       /\ ~last'.uncaught
       /\ UNCHANGED <<mounted, provider, containerKey, nextKey, isWidgetLoaded,
                      nextLoaded, containerRef, content, widgetInstance,
                      destroyCalls, hasInitialized, timers, passive,
                      attempts, reinitCalls, availableAtMount,
                      timedOut>>]_vars

\* updateWidget was called on a component whose attempt had timed out.
C9_Witness ==
  last.op = "updateWidget" /\ widgetInstance = 0 /\ timedOut /\ ~isWidgetLoaded

\* C10: when destroy raises during cleanup the error is swallowed and the
\* rest of cleanup runs: the handle reference is dropped, LoadState is reset,
\* the container is emptied and nothing reaches the caller.
C10_DestroyFailureSwallowed ==
  last.destroyThrew =>
    (widgetInstance = 0 /\ ~nextLoaded /\ content = Empty /\ ~last.uncaught)

\* C11: cleanup is idempotent and safe with no widget loaded.  With no handle
\* held it invokes no destroy and leaves LoadState, the handle reference and
\* the re-entry guard as they are (the generation is not among the cells it
\* writes).  A second cleanup right after a first invokes no destroy, so
\* destroy runs once in total, and leaves LoadState, the handle reference
\* and the guard as the first left them; with the container write behaving
\* in the second call as in the first, the whole state is the same as after
\* one call.  An unmount or reinitialize() that finds no handle invokes no
\* destroy.
C11_CleanupIdempotent ==
  /\ [](\A r1, r2 \in WriteRaises :
          LET once == Cleanup(Cells, r1)
              twice == Cleanup(once, r2)
          IN /\ twice.destroyCalls = once.destroyCalls
             /\ twice.wi = once.wi
             /\ twice.loaded = once.loaded
             /\ twice.hasInit = once.hasInit
             /\ r2.clear = r1.clear => twice = once
             /\ widgetInstance = 0 =>
                  /\ once.destroyCalls = destroyCalls
                  /\ once.loaded = nextLoaded
                  /\ once.wi = 0
                  /\ once.hasInit = hasInitialized
             /\ widgetInstance # 0 =>
                  /\ twice.destroyCalls[widgetInstance]
                       = destroyCalls[widgetInstance] + 1
                  /\ twice.wi = 0 /\ ~twice.loaded)
  /\ [][/\ (last'.op \in {"unmount", "reinitialize"} /\ widgetInstance = 0) =>
             UNCHANGED <<destroyCalls, widgetInstance, nextLoaded>>
        /\ (last'.op = "unmount" /\ widgetInstance = 0) =>
             UNCHANGED <<hasInitialized, nextKey, containerKey>>]_vars

\* The unmount's cleanup has just destroyed a handle, once, and the guard is
\* set: a second cleanup from here is the second of two in a row.
C11_Witness ==
  /\ last.op = "unmount"
  /\ widgetInstance = 0
  /\ hasInitialized
  /\ \E h \in 1..Len(destroyCalls) : destroyCalls[h] = 1

\* C12: the target URL handed to the provider is the fixed base URL followed
\* by the tracking identifier: it ends with "trackid=" and the identifier
\* when one is supplied, and with "trackid=" alone when it is absent.
C12_TargetUrlEndsWithTrackId ==
  last.invoked =>
    last.url = UrlHead \o ("trackid=" \o
                 (IF last.urn.given THEN last.urn.value ELSE ""))

\* The provider was called by a component whose urn prop was not passed.
C12_Witness == last.invoked /\ ~last.urn.given /\ last.url = BaseUrl

\* C13: at most one poll interval and at most one timeout timer are pending
\* at any time.
C13_AtMostOnePollAndTimeout ==
  /\ Cardinality(PendingOf("poll")) <= 1
  /\ Cardinality(PendingOf("timeout")) <= 1

\* C14: the poll interval and the timeout of one attempt are cancelled
\* together: one is pending exactly when the other is.
C14_PollAndTimeoutCancelledTogether ==
  \A n \in 1..attempts :
    (\E t \in PendingOf("poll") : t.n = n)
      <=> (\E t \in PendingOf("timeout") : t.n = n)

\* C15: whenever a widget is loaded, the id of the inner child it was put in
\* is keyed by the current ContainerGeneration.
C15_InnerIdKeyedByGeneration ==
  (mounted /\ ~Pending /\ content.widget) => content.inner = containerKey

\* C16: between a reinitialize() call and the firing of its delay timer no
\* poll tick or other timer left from an earlier attempt invokes the provider.
C16_NoInvokeBeforeReinitDelay ==
  (last.op = "fire" /\ last.kind # "reinit" /\ last.invoked) =>
    PendingOf("reinit") = {}

\* C17: LoadState is loaded exactly when a handle is held.
C17_LoadedIffHandleHeld ==
  mounted => (nextLoaded <=> widgetInstance # 0)

C19_NoInvokeAfterUnmount ==
  ~mounted => (~last.invoked /\ widgetInstance = 0)

\* C19, amended: after unmount, which detaches the container reference, the
\* provider is never invoked and no handle is created, whichever timers were
\* pending and in whatever order they fire; the handle held at unmount is
\* dropped by the unmount effect's cleanup, which may run a step after the
\* detach, and once that has run no handle is held.
C19_NoInvokeNorHandleAfterCleanup ==
  /\ [](/\ ~mounted => ~last.invoked
        /\ (~mounted /\ passive # "unmount") => widgetInstance = 0)
  /\ [][~mounted => /\ Len(destroyCalls') = Len(destroyCalls)
                    /\ (widgetInstance' # widgetInstance => widgetInstance' = 0)]_vars

\* A poll tick has run after unmount with the provider available.
C19_Witness ==
  /\ ~mounted
  /\ provider = "function"
  /\ last.op = "fire" /\ last.kind = "poll"
  /\ hasInitialized

=============================================================================
